---- MODULE Spec2Model ----
(***************************************************************************)
(* A model of pdf_highlighter.py: the interactive session of               *)
(* HighlighterApp (foreground Tk thread), the background worker threads    *)
(* it spawns, the log queue between them, highlight_document and the part  *)
(* of the filesystem they read and write.                                  *)
(*                                                                         *)
(* Paths are sequences of name components.  Text is a sequence of          *)
(* one-character strings.  A PDF document is a record holding its pages    *)
(* (each a sequence of words) and the number of highlight annotations.     *)
(***************************************************************************)
EXTENDS Integers, Sequences, FiniteSets, TLC

(* ------------------------------------------------------------------ *)
(* Bounds of the model                                                  *)
(* ------------------------------------------------------------------ *)

\* How many times the start action may launch a worker.
MaxStarts == 2

\* How many actions (folder pickers, keyword dialogs, start button) the user
\* takes in one behaviour.
MaxActions == 4

\* The longest text tried as the content of the keyword dialog or of a
\* keyword file when the two parsers are examined on their own.
MaxLen == 3

\* ttk.Progressbar's maximum before the first batch configures it.
ProgressDefaultMax == 100

(* ------------------------------------------------------------------ *)
(* Paths (pathlib.Path)                                                 *)
(* ------------------------------------------------------------------ *)

None == <<"None">>

IsPrefix(b, p) == Len(b) <= Len(p) /\ SubSeq(p, 1, Len(b)) = b

\* Path.relative_to: the remainder of p below base, ValueError otherwise.
RelativeTo(p, base) ==
    IF IsPrefix(base, p)
    THEN [ok |-> TRUE, rel |-> SubSeq(p, Len(base) + 1, Len(p))]
    ELSE [ok |-> FALSE, rel |-> <<>>]

\* Path.__truediv__ with a relative right operand.
Join(base, rel) == base \o rel

\* Path.parent
Parent(p) == SubSeq(p, 1, Len(p) - 1)

\* Path.name
Name(p) == p[Len(p)]

\* p and every ancestor of p: what mkdir(parents=True) makes exist.
Chain(p) == {SubSeq(p, 1, k) : k \in 1..Len(p)}

(* ------------------------------------------------------------------ *)
(* Text (str)                                                           *)
(* ------------------------------------------------------------------ *)

IsSpace(c) == c \in {" ", "\n"}

RECURSIVE LStrip(_)
LStrip(s) == IF s # <<>> /\ IsSpace(s[1]) THEN LStrip(Tail(s)) ELSE s

RECURSIVE RStrip(_)
RStrip(s) ==
    IF s # <<>> /\ IsSpace(s[Len(s)]) THEN RStrip(SubSeq(s, 1, Len(s) - 1)) ELSE s

\* str.strip()
Strip(s) == RStrip(LStrip(s))

\* str.split(sep): the pieces between separators, always at least one piece.
RECURSIVE Split(_, _)
Split(s, sep) ==
    IF \E i \in 1..Len(s) : s[i] = sep
    THEN LET i == CHOOSE k \in 1..Len(s) :
                      s[k] = sep /\ \A j \in 1..(k - 1) : s[j] # sep
         IN  <<SubSeq(s, 1, i - 1)>> \o Split(SubSeq(s, i + 1, Len(s)), sep)
    ELSE <<s>>

\* str.splitlines(): like split on the line break, but the empty text has no
\* line and a final line break opens no further line.
SplitLines(s) ==
    IF s = <<>> THEN <<>>
    ELSE IF s[Len(s)] = "\n" THEN Split(SubSeq(s, 1, Len(s) - 1), "\n")
    ELSE Split(s, "\n")

\* [x.strip() for x in pieces if x.strip()]
RECURSIVE StripNonEmpty(_)
StripNonEmpty(pieces) ==
    IF pieces = <<>> THEN <<>>
    ELSE LET t == Strip(Head(pieces))
         IN  (IF t # <<>> THEN <<t>> ELSE <<>>) \o StripNonEmpty(Tail(pieces))

\* [x.strip() for x in pieces]: the comprehension without its filter.
RECURSIVE StripAll(_)
StripAll(pieces) ==
    IF pieces = <<>> THEN <<>>
    ELSE <<Strip(Head(pieces))>> \o StripAll(Tail(pieces))

\* [x for x in pieces if x.strip()]: the comprehension without its strip.
RECURSIVE NonEmpty(_)
NonEmpty(pieces) ==
    IF pieces = <<>> THEN <<>>
    ELSE (IF Strip(Head(pieces)) # <<>> THEN <<Head(pieces)>> ELSE <<>>)
         \o NonEmpty(Tail(pieces))

\* load_keywords_from_text that keeps blank lines.
LoadKeepBlank(text) == StripAll(SplitLines(text))

\* The comprehension of _edit_keywords that keeps the pieces untrimmed.
ParseKeywordsUntrimmed(result) == NonEmpty(Split(result, ","))

\* load_keywords_from_text applied to the text read from the file
load_keywords_from_text(text) == StripNonEmpty(SplitLines(text))

\* The comprehension of _edit_keywords
ParseKeywords(result) == StripNonEmpty(Split(result, ","))

(* ------------------------------------------------------------------ *)
(* Documents and the PDF library (fitz)                                 *)
(* ------------------------------------------------------------------ *)

Lower(c) == IF c = "F" THEN "f" ELSE IF c = "G" THEN "g" ELSE c

LowerText(s) == [i \in 1..Len(s) |-> Lower(s[i])]

\* page.search_for(kw, flags=TEXT_IGNORECASE ...): the regions of the page
\* where kw appears, here the positions of the words equal to kw up to case.
SearchFor(page, kw) == {i \in 1..Len(page) : LowerText(page[i]) = LowerText(kw)}

\* A count that takes a region found by two keywords once.
PageHitsDistinct(page, kws) ==
    Cardinality(UNION {SearchFor(page, kws[k]) : k \in DOMAIN kws})

\* The nested loops of highlight_document: hits of every keyword on one page.
RECURSIVE PageHits(_, _)
PageHits(page, kws) ==
    IF kws = <<>> THEN 0
    ELSE Cardinality(SearchFor(page, Head(kws))) + PageHits(page, Tail(kws))

RECURSIVE DocHits(_, _)
DocHits(pages, kws) ==
    IF pages = <<>> THEN 0
    ELSE PageHits(Head(pages), kws) + DocHits(Tail(pages), kws)

wf == <<"f">>
wF == <<"F">>
wg == <<"g">>

\* File contents.
GoodDoc == [kind |-> "pdf", pages |-> <<<<wf, wg, wF>>, <<wg>>>>, annots |-> 0]
JunkDoc == [kind |-> "junk", pages |-> <<>>, annots |-> 0]
PartialDoc == [kind |-> "partial", pages |-> <<>>, annots |-> 0]

(* ------------------------------------------------------------------ *)
(* The world the program starts in                                      *)
(* ------------------------------------------------------------------ *)

dirA == <<"a">>
dirAB == <<"a", "b">>
dirC == <<"c">>

\* The folders the user picks as source and as destination.
SrcChoices == {dirA, dirAB, dirC}
DestChoices == {dirC}

\* The texts the keyword dialog can return.
EditInputs == {<<"f", ",", " ", ",", "g", " ">>}

\* The texts of the keyword files the file picker can open.
KwFileTexts == {<<"F", "\n", " ", "\n", "f">>}

\* The characters of the texts tried on the parsers, and every text of at
\* most MaxLen of them.
Chars == {"f", "g", ",", " ", "\n"}

Texts == UNION {[1..n -> Chars] : n \in 0..MaxLen}

\* No text handed to a parser yet.
NoText == [by |-> "", text |-> <<>>]

\* a/x.pdf is no PDF under a PDF name, a/b/x.pdf is a PDF, c is empty.
InitFiles ==
    (dirA \o <<"x.pdf">>) :> JunkDoc
    @@ (dirA \o <<"n.txt">>) :> JunkDoc
    @@ (dirAB \o <<"x.pdf">>) :> GoodDoc

InitDirs == {dirA, dirAB, dirC}

VARIABLES
    src_folder,     \* self.src_folder
    dest_folder,    \* self.dest_folder
    keywords,       \* self.keywords
    kw_count_var,   \* the number shown by self.kw_count_var
    progress,       \* self.progress: [value, maximum]
    log_txt,        \* the lines of self.log_txt
    summary_var,    \* self.summary_var
    notice,         \* the last message box shown by _start
    log_q,          \* self.log_q
    threads,        \* the worker threads started so far, in start order
    files,          \* the files of the filesystem and their contents
    dirs,           \* the directories of the filesystem
    entered,        \* history: the text last parsed into self.keywords
    nput,           \* history: how many items were ever put on log_q
    seen,           \* history: the tickets of the items handled, in order
    shown,          \* history: per worker, the ranks of its items handled
    nactions        \* history: how many actions the user has taken

vars == <<src_folder, dest_folder, keywords, kw_count_var, progress, log_txt,
          summary_var, notice, log_q, threads, files, dirs, entered, nput,
          seen, shown, nactions>>

ui == <<src_folder, dest_folder, keywords, kw_count_var, entered>>
display == <<progress, log_txt, summary_var>>
fs == <<files, dirs>>

Init ==
    /\ src_folder = None
    /\ dest_folder = None
    /\ keywords = <<>>
    /\ kw_count_var = 0
    /\ progress = [value |-> 0, maximum |-> ProgressDefaultMax]
    /\ log_txt = <<>>
    /\ summary_var = [text |-> "", n |-> 0]
    /\ notice = ""
    /\ log_q = <<>>
    /\ threads = <<>>
    /\ files = InitFiles
    /\ dirs = InitDirs
    /\ entered = NoText
    /\ nput = 0
    /\ seen = <<>>
    /\ shown = <<>>
    /\ nactions = 0

(* ------------------------------------------------------------------ *)
(* Event handlers of the foreground thread                              *)
(* ------------------------------------------------------------------ *)

\* _choose_src: the picker returns a folder, or "" when cancelled.
ChooseSrc ==
    /\ nactions < MaxActions
    /\ \E folder \in SrcChoices \cup {None} :
          src_folder' = IF folder # None THEN folder ELSE src_folder
    /\ nactions' = nactions + 1
    /\ UNCHANGED <<dest_folder, keywords, kw_count_var, entered, display,
                   notice, log_q, threads, fs, nput, seen, shown>>

\* _choose_dest: a cancelled picker resets the destination to "same as source".
ChooseDest ==
    /\ nactions < MaxActions
    /\ \E folder \in DestChoices \cup {None} : dest_folder' = folder
    /\ nactions' = nactions + 1
    /\ UNCHANGED <<src_folder, keywords, kw_count_var, entered, display,
                   notice, log_q, threads, fs, nput, seen, shown>>

\* The body of _load_kw_file for a file of the given text: a cancelled
\* picker or a file that cannot be read leaves the keyword list as it is.
LoadKwFileWith(text, readable) ==
    IF readable
    THEN /\ keywords' = load_keywords_from_text(text)
         /\ kw_count_var' = Len(keywords')
         /\ entered' = [by |-> "file", text |-> text]
    ELSE UNCHANGED <<keywords, kw_count_var, entered>>

LoadKwFile ==
    /\ nactions < MaxActions
    /\ \E text \in KwFileTexts, readable \in BOOLEAN :
          LoadKwFileWith(text, readable)
    /\ nactions' = nactions + 1
    /\ UNCHANGED <<src_folder, dest_folder, display, notice, log_q, threads,
                   fs, nput, seen, shown>>

\* The body of _edit_keywords: the dialog returns a text, or None when
\* cancelled.
EditKeywordsWith(result) ==
    IF result # None
    THEN /\ keywords' = ParseKeywords(result)
         /\ kw_count_var' = Len(keywords')
         /\ entered' = [by |-> "edit", text |-> result]
    ELSE UNCHANGED <<keywords, kw_count_var, entered>>

EditKeywords ==
    /\ nactions < MaxActions
    /\ \E result \in EditInputs \cup {None} : EditKeywordsWith(result)
    /\ nactions' = nactions + 1
    /\ UNCHANGED <<src_folder, dest_folder, display, notice, log_q, threads,
                   fs, nput, seen, shown>>

\* The two keyword handlers with any text of Texts as their input, and
\* nothing else going on.
ParseEdit ==
    /\ \E result \in Texts \cup EditInputs : EditKeywordsWith(result)
    /\ UNCHANGED <<src_folder, dest_folder, display, notice, log_q, threads,
                   fs, nput, seen, shown, nactions>>

ParseLoad ==
    /\ \E text \in Texts \cup KwFileTexts : LoadKwFileWith(text, TRUE)
    /\ UNCHANGED <<src_folder, dest_folder, display, notice, log_q, threads,
                   fs, nput, seen, shown, nactions>>

(* ------------------------------------------------------------------ *)
(* walk_pdfs                                                            *)
(* ------------------------------------------------------------------ *)

\* The names the pattern "*.pdf" matches.
IsPdfName(n) == n \in {"x.pdf"}

\* A set of paths as a list, shallower paths first: rglob yields the matches
\* of a directory before it descends into its subdirectories.
RECURSIVE TraversalOrder(_)
TraversalOrder(S) ==
    IF S = {} THEN <<>>
    ELSE LET p == CHOOSE q \in S : \A r \in S : Len(q) <= Len(r)
         IN  <<p>> \o TraversalOrder(S \ {p})

walk_pdfs(folder) ==
    TraversalOrder({p \in DOMAIN files :
                       /\ IsPrefix(folder, p)
                       /\ Len(p) > Len(folder)
                       /\ IsPdfName(Name(p))})

(* ------------------------------------------------------------------ *)
(* The log queue (queue.Queue) and its items                            *)
(* ------------------------------------------------------------------ *)

\* Queue.put
QueuePut(q, item) == Append(q, item)

\* A queue that hands out its newest item first.
QueueGetNewest(q) == [item |-> q[Len(q)], rest |-> SubSeq(q, 1, Len(q) - 1)]

\* Queue.get_nowait on a non-empty queue
QueueGet(q) == [item |-> Head(q), rest |-> Tail(q)]

\* Items are records of one shape.  tag "LOG" stands for a str item (a
\* success line with its hit count, or a failure line, whose error text is
\* left out), the other tags for the tuples ("PROGRESS", idx) and
\* ("DONE", n).  Two fields are history that no code reads: by, the worker
\* that put the item and the file index it is about (0 for DONE), and
\* ticket, the number of items put before it, plus one.
LogOk(name, hits, by) ==
    [tag |-> "LOG", ok |-> TRUE, name |-> name, n |-> hits, by |-> by,
     ticket |-> nput + 1]

LogErr(name, by) ==
    [tag |-> "LOG", ok |-> FALSE, name |-> name, n |-> 0, by |-> by,
     ticket |-> nput + 1]

ProgressItem(idx, by) ==
    [tag |-> "PROGRESS", ok |-> TRUE, name |-> "", n |-> idx, by |-> by,
     ticket |-> nput + 1]

DoneItem(n, by) ==
    [tag |-> "DONE", ok |-> TRUE, name |-> "", n |-> n, by |-> by,
     ticket |-> nput + 1]

Put(item) ==
    /\ log_q' = QueuePut(log_q, item)
    /\ nput' = nput + 1

\* The text of a str item as the log display shows it.
Line(item) == [ok |-> item.ok, name |-> item.name, n |-> item.n]

(* ------------------------------------------------------------------ *)
(* _start                                                               *)
(* ------------------------------------------------------------------ *)

NoSummary == [text |-> "", n |-> 0]

\* _start without its keyword check.
StartNoticeNoKeywordCheck(src, kws, pdfs) ==
    IF src = None THEN "No source"
    ELSE IF pdfs = <<>> THEN "No PDFs"
    ELSE ""

\* The three early returns of _start, in order; "" when none applies.
StartNotice(src, kws, pdfs) ==
    IF src = None THEN "No source"
    ELSE IF kws = <<>> THEN "No keywords"
    ELSE IF pdfs = <<>> THEN "No PDFs"
    ELSE ""

\* The locals of highlight_document outside a call.
NoCall == [dest_path |-> None, kw |-> <<>>, doc |-> JunkDoc, total_hits |-> 0,
           wrote |-> FALSE]

\* A thread as threading.Thread(target=self._worker, args=(pdfs,)) creates it.
\* Two fields are history: at_start, the configuration when the start
\* action fired, and dests, the dest_path of every file so far.
NewThread(pdfs) ==
    [pdfs |-> pdfs, pc |-> "start", idx |-> 0, dest_base |-> None,
     call |-> NoCall, last_ok |-> TRUE, dests |-> <<>>,
     at_start |-> [src |-> src_folder, dest |-> dest_folder, kw |-> keywords]]

\* A reset that sets the maximum and leaves the value.
ResetProgressKeepValue(n) == [value |-> progress.value, maximum |-> n]

\* The "Reset UI" block of _start.
ResetProgress(n) == [value |-> 0, maximum |-> n]

Start ==
    /\ nactions < MaxActions
    /\ nactions' = nactions + 1
    /\ LET pdfs == IF src_folder = None THEN <<>> ELSE walk_pdfs(src_folder)
           why == StartNotice(src_folder, keywords, pdfs)
       IN  IF why # ""
           THEN /\ notice' = why
                /\ UNCHANGED <<display, threads, shown>>
           ELSE /\ Len(threads) < MaxStarts
                /\ progress' = ResetProgress(Len(pdfs))
                /\ log_txt' = <<>>
                /\ summary_var' = NoSummary
                /\ threads' = Append(threads, NewThread(pdfs))
                /\ shown' = Append(shown, <<>>)
                /\ UNCHANGED notice
    /\ UNCHANGED <<ui, log_q, fs, nput, seen>>

(* ------------------------------------------------------------------ *)
(* _worker                                                              *)
(* ------------------------------------------------------------------ *)

Workers == 1..Len(threads)

Pdf(t) == t.pdfs[t.idx]

\* dest_base = self.dest_folder or self.src_folder
DestBase(dest, src) == IF dest # None THEN dest ELSE src

\* The worker's first statement.
WorkerInit(w) ==
    LET t == threads[w] IN
    /\ t.pc = "start"
    /\ threads' = [threads EXCEPT ![w] =
          [t EXCEPT !.pc = "loop", !.idx = 1,
                    !.dest_base = DestBase(dest_folder, src_folder)]]
    /\ UNCHANGED <<ui, display, notice, log_q, fs, nput, seen, shown, nactions>>

\* dest_base != self.src_folder
Mirrors(base, src) == base # src

\* dest_base / pdf.relative_to(self.src_folder)
MirrorPath(base, pdf, src) == Join(base, RelativeTo(pdf, src).rel)

\* The thread with dest_path computed, about to call highlight_document.
Calling(t, dest) ==
    [t EXCEPT !.pc = "call", !.call.dest_path = dest, !.dests = Append(@, dest)]

\* The head of the for loop: the DONE put when the list is exhausted, else the
\* condition of the conditional expression that computes dest_path.
WorkerLoop(w) ==
    LET t == threads[w] IN
    /\ t.pc = "loop"
    /\ IF t.idx > Len(t.pdfs)
       THEN /\ Put(DoneItem(Len(t.pdfs), <<w, 0>>))
            /\ threads' = [threads EXCEPT ![w] = [t EXCEPT !.pc = "done"]]
       ELSE /\ threads' = [threads EXCEPT ![w] =
                 IF Mirrors(t.dest_base, src_folder)
                 THEN [t EXCEPT !.pc = "rel"]
                 ELSE Calling(t, Pdf(t))]
            /\ UNCHANGED <<log_q, nput>>
    /\ UNCHANGED <<ui, display, notice, fs, seen, shown, nactions>>

\* The true branch of the conditional expression: a second read of
\* self.src_folder; the ValueError of relative_to ends the thread.
WorkerRel(w) ==
    LET t == threads[w] IN
    /\ t.pc = "rel"
    /\ threads' = [threads EXCEPT ![w] =
          IF RelativeTo(Pdf(t), src_folder).ok
          THEN Calling(t, MirrorPath(t.dest_base, Pdf(t), src_folder))
          ELSE [t EXCEPT !.pc = "crashed"]]
    /\ UNCHANGED <<ui, display, notice, log_q, fs, nput, seen, shown, nactions>>

\* A worker that sets the progress bar itself and puts nothing.
WorkerProgressDirect(w) ==
    LET t == threads[w] IN
    /\ t.pc = "progress"
    /\ progress' = [progress EXCEPT !.value = t.idx]
    /\ threads' = [threads EXCEPT ![w] =
          [t EXCEPT !.pc = "loop", !.idx = @ + 1, !.call = NoCall]]
    /\ UNCHANGED <<ui, log_txt, summary_var, notice, log_q, fs, nput, seen,
                   shown, nactions>>

\* hits_total += 1; self.log_q.put(("PROGRESS", idx))
WorkerProgress(w) ==
    LET t == threads[w] IN
    /\ t.pc = "progress"
    /\ Put(ProgressItem(t.idx, <<w, t.idx>>))
    /\ threads' = [threads EXCEPT ![w] =
          [t EXCEPT !.pc = "loop", !.idx = @ + 1, !.call = NoCall]]
    /\ UNCHANGED <<ui, display, notice, fs, seen, shown, nactions>>

(* ------------------------------------------------------------------ *)
(* highlight_document                                                   *)
(* ------------------------------------------------------------------ *)

\* The thread back in _worker after the call; last_ok tells which line the
\* call emitted.
Returned(t, ok) == [t EXCEPT !.pc = "progress", !.last_ok = ok]

\* highlight_document without its except clause: the exception leaves
\* _worker and ends the thread.
FailedUncaught(w, t) ==
    /\ threads' = [threads EXCEPT ![w] = [t EXCEPT !.pc = "crashed"]]
    /\ UNCHANGED <<log_q, nput>>

\* except Exception as exc: log_q.put("✗ Error <name>: <exc>")
Failed(w, t) ==
    /\ Put(LogErr(Name(Pdf(t)), <<w, t.idx>>))
    /\ threads' = [threads EXCEPT ![w] = Returned(t, FALSE)]

\* A successful call that returns without its log line.
SucceededSilent(w, t) ==
    /\ threads' = [threads EXCEPT ![w] = [t EXCEPT !.pc = "progress", !.last_ok = TRUE]]
    /\ UNCHANGED <<log_q, nput>>

\* log_q.put("✓ <name>: <total_hits> hit(s)")
Succeeded(w, t) ==
    /\ Put(LogOk(Name(Pdf(t)), t.call.total_hits, <<w, t.idx>>))
    /\ threads' = [threads EXCEPT ![w] = Returned(t, TRUE)]

\* The loops over pages, keywords and text instances: every instance gets
\* one highlight annotation and total_hits counts the instances.
Annotated(doc, kws) == [doc EXCEPT !.annots = @ + DocHits(doc.pages, kws)]

\* The call of line 186, which reads self.keywords, then fitz.open(src) and
\* the search and annotation loops, which work on the document in memory.
\* A file that is no PDF cannot be opened; opening, searching and annotating
\* may each raise.
EngineOpen(w) ==
    LET t == [threads[w] EXCEPT !.call.kw = keywords]
        pdf == Pdf(t)
    IN  /\ t.pc = "call"
        /\ \E outcome \in {"ok", "open", "search", "annot"} :
              IF pdf \in DOMAIN files /\ files[pdf].kind = "pdf" /\ outcome = "ok"
              THEN /\ threads' = [threads EXCEPT ![w] =
                        [t EXCEPT !.pc = "mkdir",
                                  !.call.doc = Annotated(files[pdf], t.call.kw),
                                  !.call.total_hits =
                                       DocHits(files[pdf].pages, t.call.kw)]]
                   /\ UNCHANGED <<log_q, nput>>
              ELSE Failed(w, t)
        /\ UNCHANGED <<ui, display, notice, fs, seen, shown, nactions>>

\* highlight_document without its mkdir line.
EngineMkdirSkipped(w) ==
    LET t == threads[w] IN
    /\ t.pc = "mkdir"
    /\ threads' = [threads EXCEPT ![w] = [t EXCEPT !.pc = "save"]]
    /\ UNCHANGED <<ui, display, notice, log_q, fs, nput, seen, shown, nactions>>

\* dest.parent.mkdir(parents=True, exist_ok=True)
EngineMkdir(w) ==
    LET t == threads[w] IN
    /\ t.pc = "mkdir"
    /\ \E raises \in BOOLEAN :
          IF ~raises
          THEN /\ dirs' = dirs \cup Chain(Parent(t.call.dest_path))
               /\ threads' = [threads EXCEPT ![w] = [t EXCEPT !.pc = "save"]]
               /\ UNCHANGED <<log_q, nput>>
          ELSE /\ Failed(w, t)
               /\ UNCHANGED dirs
    /\ UNCHANGED <<ui, display, notice, files, seen, shown, nactions>>

\* doc.save(dest, garbage=4, deflate=True).  A save that raises has either
\* not touched dest or left an incomplete file there: nothing in
\* highlight_document writes to a temporary file or removes dest on failure.
EngineSave(w) ==
    LET t == threads[w]
        dest == t.call.dest_path
    IN  /\ t.pc = "save"
        /\ \E outcome \in {"ok", "refused", "partial"} :
              IF outcome = "ok" /\ Parent(dest) \in dirs
              THEN /\ files' = (dest :> t.call.doc) @@ files
                   /\ threads' = [threads EXCEPT ![w] =
                        [t EXCEPT !.pc = "close", !.call.wrote = TRUE]]
                   /\ UNCHANGED <<log_q, nput>>
              ELSE IF outcome = "partial" /\ Parent(dest) \in dirs
              THEN /\ files' = (dest :> PartialDoc) @@ files
                   /\ Failed(w, [t EXCEPT !.call.wrote = TRUE])
              ELSE /\ Failed(w, t)
                   /\ UNCHANGED files
        /\ UNCHANGED <<ui, display, notice, dirs, seen, shown, nactions>>

\* doc.close() and the success line.
EngineClose(w) ==
    LET t == threads[w] IN
    /\ t.pc = "close"
    /\ \E raises \in BOOLEAN :
          IF ~raises THEN Succeeded(w, t) ELSE Failed(w, t)
    /\ UNCHANGED <<ui, display, notice, fs, seen, shown, nactions>>

(* ------------------------------------------------------------------ *)
(* _drain_log_q                                                         *)
(* ------------------------------------------------------------------ *)

Finished(n) == [text |-> "Finished", n |-> n]

\* The place of an item among the items of its worker: the log line of file
\* i is its (2i-1)-th put, PROGRESS i its 2i-th, DONE n its (2n+1)-th.
Rank(item) ==
    IF item.tag = "LOG" THEN 2 * item.by[2] - 1
    ELSE IF item.tag = "PROGRESS" THEN 2 * item.by[2]
    ELSE 2 * item.n + 1

\* The body of the while loop for one item.  d holds the display and the
\* two histories.
Handle(d, item) ==
    LET h == [d EXCEPT !.seen = Append(@, item.ticket),
                       !.shown[item.by[1]] = Append(@, Rank(item))]
    IN  IF item.tag = "PROGRESS" THEN [h EXCEPT !.progress.value = item.n]
        ELSE IF item.tag = "DONE" THEN [h EXCEPT !.summary_var = Finished(item.n)]
        ELSE [h EXCEPT !.log_txt = Append(@, Line(item))]

\* A loop that handles one item and gives up.
DrainLoopOne(q, d) == IF q = <<>> THEN d ELSE Handle(d, QueueGet(q).item)

\* while True: item = self.log_q.get_nowait() ... until queue.Empty
RECURSIVE DrainLoop(_, _)
DrainLoop(q, d) ==
    IF q = <<>> THEN d
    ELSE LET got == QueueGet(q) IN DrainLoop(got.rest, Handle(d, got.item))

\* One timer tick: _drain_log_q takes every pending item, never waits, and
\* sets its timer again.  An item a worker puts while the loop runs is taken
\* by this tick as well, which is the same as the put coming first.
Drain ==
    /\ LET d == DrainLoop(log_q, [progress |-> progress, log_txt |-> log_txt,
                                  summary_var |-> summary_var, seen |-> seen,
                                  shown |-> shown])
       IN  /\ progress' = d.progress
           /\ log_txt' = d.log_txt
           /\ summary_var' = d.summary_var
           /\ seen' = d.seen
           /\ shown' = d.shown
    /\ log_q' = <<>>
    /\ UNCHANGED <<ui, notice, threads, fs, nput, nactions>>

(* ------------------------------------------------------------------ *)
(* The program                                                          *)
(* ------------------------------------------------------------------ *)

\* One step of worker w, wherever it is.
WorkerStep(w) ==
    \/ WorkerInit(w)
    \/ WorkerLoop(w)
    \/ WorkerRel(w)
    \/ EngineOpen(w)
    \/ EngineMkdir(w)
    \/ EngineSave(w)
    \/ EngineClose(w)
    \/ WorkerProgress(w)

Next ==
    \/ ChooseSrc
    \/ ChooseDest
    \/ LoadKwFile
    \/ EditKeywords
    \/ Start
    \/ Drain
    \/ \E w \in Workers : WorkerInit(w)
    \/ \E w \in Workers : WorkerLoop(w)
    \/ \E w \in Workers : WorkerRel(w)
    \/ \E w \in Workers : EngineOpen(w)
    \/ \E w \in Workers : EngineMkdir(w)
    \/ \E w \in Workers : EngineSave(w)
    \/ \E w \in Workers : EngineClose(w)
    \/ \E w \in Workers : WorkerProgress(w)

Spec == Init /\ [][Next]_vars

\* The keyword handlers alone, on every text of Texts.
ParseNext ==
    \/ ParseEdit
    \/ ParseLoad

ParseSpec == Init /\ [][ParseNext]_vars

\* A worker thread is running.
Busy == \E w \in Workers : threads[w].pc \notin {"done", "crashed"}

\* The start action taken while no worker is running.
StartIdle == ~Busy /\ Start

\* The session of a user who starts a batch only when none is running.
SerialNext ==
    \/ ChooseSrc
    \/ ChooseDest
    \/ LoadKwFile
    \/ EditKeywords
    \/ StartIdle
    \/ Drain
    \/ \E w \in Workers : WorkerInit(w)
    \/ \E w \in Workers : WorkerLoop(w)
    \/ \E w \in Workers : WorkerRel(w)
    \/ \E w \in Workers : EngineOpen(w)
    \/ \E w \in Workers : EngineMkdir(w)
    \/ \E w \in Workers : EngineSave(w)
    \/ \E w \in Workers : EngineClose(w)
    \/ \E w \in Workers : WorkerProgress(w)

\* That session with the timer of _drain_log_q firing, whatever the workers
\* do.
SerialSpec == Init /\ [][SerialNext]_vars /\ WF_vars(Drain)

\* Threads that can run do run, and the timer of _drain_log_q fires.
FairSpec ==
    /\ Spec
    /\ \A w \in 1..MaxStarts : WF_vars(w \in Workers /\ WorkerStep(w))
    /\ WF_vars(Drain)

(* ------------------------------------------------------------------ *)
(* Properties                                                           *)
(* ------------------------------------------------------------------ *)

\* Where a thread is between the call of highlight_document and its return.
InCall == {"call", "mkdir", "save", "close"}

Range(f) == {f[i] : i \in DOMAIN f}

N(t) == Len(t.pdfs)

\* One engine invocation per file, in the order of the list.
C1_Order(w) ==
    LET t == threads[w] IN
    /\ t.pc \in {"loop", "rel"} => Len(t.dests) = t.idx - 1
    /\ t.pc \in InCall \cup {"progress"} => Len(t.dests) = t.idx /\ t.idx <= N(t)
    /\ t.pc = "done" => Len(t.dests) = N(t) /\ t.idx = N(t) + 1

\* A call that ends, ends back in the loop with exactly one log line put for
\* its file, and the loop goes on to the next file.
C1_Step(w) ==
    LET t == threads[w]
        u == threads'[w]
    IN  /\ (t.pc \in InCall /\ u.pc \notin InCall) =>
              /\ u.pc = "progress"
              /\ u.idx = t.idx
              /\ Len(log_q') = Len(log_q) + 1
              /\ SubSeq(log_q', 1, Len(log_q)) = log_q
              /\ LET line == log_q'[Len(log_q')] IN
                    /\ line.tag = "LOG"
                    /\ line.by = <<w, t.idx>>
                    /\ line.name = Name(Pdf(t))
                    /\ line.ok = u.last_ok
                    /\ line.ok => line.n = DocHits(t.call.doc.pages, t.call.kw)
        /\ (t.pc = "progress" /\ u.pc # "progress") =>
              u.pc = "loop" /\ u.idx = t.idx + 1
        /\ (t.pc = "loop" /\ u.pc # "loop" /\ t.idx <= N(t)) =>
              u.pc \in {"rel", "call"} /\ u.idx = t.idx

\* C1: per-file failure isolation.  Whichever step of highlight_document
\* raises, the call returns to the worker's loop having put exactly one log
\* line for its file (a failure line, or a success line carrying the hit
\* count of that document), the loop goes on with the next file, the engine
\* is invoked once per file in list order, and a worker that reaches its end
\* has invoked it on all N files.
C1_FailureIsolation ==
    /\ [](\A w \in Workers : C1_Order(w))
    /\ [][\A w \in Workers : C1_Step(w)]_vars

\* A finished batch of two files whose first file failed and whose second
\* file succeeded, both lines still in the queue.
C1_Witness ==
    \E w \in Workers : \E i, j \in 1..Len(log_q) :
       /\ threads[w].pc = "done"
       /\ i < j
       /\ log_q[i].tag = "LOG" /\ log_q[i].by = <<w, 1>> /\ ~log_q[i].ok
       /\ log_q[j].tag = "LOG" /\ log_q[j].by = <<w, 2>> /\ log_q[j].ok

\* C2: no partial output for a failed document.  A call that emitted a
\* failure line has written nothing to its destination path.
C2_NoPartialOutput ==
    \A w \in Workers :
       (threads[w].pc = "progress" /\ ~threads[w].last_ok) => ~threads[w].call.wrote

\* C3: run to completion.  Every started batch, whatever the user does
\* meanwhile, ends with its worker finished, its completion event put and that
\* event handled by the foreground.
C3_RunToCompletion ==
    \A w \in 1..MaxStarts :
       (w \in Workers) ~>
          (/\ w \in Workers
           /\ threads[w].pc = "done"
           /\ (2 * N(threads[w]) + 1) \in Range(shown[w]))

\* C4: the keyword list of a batch is frozen at start time.  Every call of
\* the engine gets the keyword list that was current when the start action
\* fired.
C4_KeywordsFrozen ==
    \A w \in Workers :
       threads[w].pc \in {"mkdir", "save", "close", "progress"} =>
          threads[w].call.kw = threads[w].at_start.kw

\* The progress value after a start, with every event handled, is the number
\* of files the started worker has completed.
C5_Settled ==
    (threads # <<>> /\ log_q = <<>> /\ threads[Len(threads)].pc # "start") =>
       progress.value = threads[Len(threads)].idx - 1

\* C5: the progress value is between 0 and the maximum, never decreases
\* within a run, and equals K once the events of the K-th file are handled.
C5_Progress ==
    /\ [](progress.value \in 0..progress.maximum /\ C5_Settled)
    /\ [][Len(threads') = Len(threads) => progress'.value >= progress.value]_vars

\* C6: first in, first out.  The items handled so far are the first items
\* put, in the order they were put, the queue holds the rest in that order,
\* and each worker's items are handled in the order log line of file 1,
\* progress 1, log line of file 2, progress 2, ..., completion.
C6_Fifo ==
    /\ \A i \in 1..Len(seen) : seen[i] = i
    /\ \A i \in 1..Len(log_q) : log_q[i].ticket = Len(seen) + i
    /\ Len(seen) + Len(log_q) = nput
    /\ \A w \in Workers : \A j \in 1..Len(shown[w]) : shown[w][j] = j

\* Every event of a batch of two files has been handled, in more than one
\* tick's worth of order: five items of one worker.
C6_Witness ==
    \E w \in Workers : N(threads[w]) = 2 /\ Len(shown[w]) = 5

\* The start action's preconditions, in the words of the claim.
NotReady ==
    \/ src_folder = None
    \/ keywords = <<>>
    \/ walk_pdfs(src_folder) = <<>>

\* C7: a start action that finds no source folder, no keyword or no PDF
\* launches no worker, puts nothing on the queue and leaves the progress
\* indicator, the log display and the summary line as they are.
C7_StartRejected ==
    [][(Start /\ NotReady) =>
          UNCHANGED <<threads, log_q, nput, progress, log_txt, summary_var>>]_vars

\* The start action was refused for want of PDFs under the source folder.
C7_Witness ==
    /\ notice = "No PDFs"
    /\ src_folder = dirC
    /\ keywords # <<>>
    /\ threads = <<>>

\* A worker thread that is alive.
Alive(w) == threads[w].pc \notin {"done", "crashed"}

\* C8: at most one worker thread is alive at any time.
C8_OneWorker == Cardinality({w \in Workers : Alive(w)}) <= 1

\* C9: within a batch, jobs with distinct input paths have distinct output
\* paths.
C9_UniqueDest ==
    \A w \in Workers : \A i, j \in 1..Len(threads[w].dests) :
       threads[w].pdfs[i] # threads[w].pdfs[j] =>
          threads[w].dests[i] # threads[w].dests[j]

\* The output path the claim gives a file of a batch started with source
\* folder src and destination folder dest.
Expected(pdf, src, dest) ==
    LET base == IF dest # None THEN dest ELSE src
    IN  IF base # src THEN base \o SubSeq(pdf, Len(src) + 1, Len(pdf)) ELSE pdf

\* C10: the output path of every file is the destination base joined with
\* the file's path relative to the source folder, or the input path itself
\* when the base is the source folder.
C10_DestMapping ==
    \A w \in Workers : \A i \in 1..Len(threads[w].dests) :
       threads[w].dests[i] =
          Expected(threads[w].pdfs[i], threads[w].at_start.src, threads[w].at_start.dest)

\* C11: the folder selections are fixed for a running batch.  While a worker
\* is alive the source and destination folders it reads are the ones in
\* effect when its start action fired, and the destination base it computed
\* is the one of that moment.
C11_FoldersFixed ==
    \A w \in Workers :
       LET t == threads[w] IN
       /\ Alive(w) => src_folder = t.at_start.src /\ dest_folder = t.at_start.dest
       /\ t.pc # "start" => t.dest_base = DestBase(t.at_start.dest, t.at_start.src)

\* C12: start resets the display.  The step of an accepted start action
\* sets the progress indicator to value 0 with the number of discovered
\* files as its maximum and clears the log display, and at the end of that
\* step the new worker has not run yet: it has put no event and none of its
\* events has been displayed.
C12_StartResets ==
    [][Len(threads') > Len(threads) =>
          LET w == Len(threads') IN
          /\ progress' = [value |-> 0, maximum |-> Len(walk_pdfs(src_folder))]
          /\ progress'.maximum = N(threads'[w])
          /\ log_txt' = <<>>
          /\ threads'[w].pc = "start"
          /\ shown'[w] = <<>>
          /\ \A i \in 1..Len(log_q') : log_q'[i].by[1] # w]_vars

\* A second batch has just been started over a display that showed events of
\* the first: the display is reset and the new worker has not run.
C12_Witness ==
    /\ Len(threads) = 2
    /\ threads[2].pc = "start"
    /\ shown[1] # <<>>
    /\ progress = [value |-> 0, maximum |-> N(threads[2])]
    /\ log_txt = <<>>

\* The positions of sep in text, in increasing order.
Positions(text, sep) ==
    SelectSeq([i \in 1..Len(text) |-> i], LAMBDA i : text[i] = sep)

\* The pieces of text that sep delimits: what lies between two neighbouring
\* separators, between the start and the first, and between the last and the
\* end.
Pieces(text, sep) ==
    LET cuts == <<0>> \o Positions(text, sep) \o <<Len(text) + 1>>
    IN  [j \in 1..(Len(cuts) - 1) |-> SubSeq(text, cuts[j] + 1, cuts[j + 1] - 1)]

\* A piece without its surrounding whitespace: from its first to its last
\* character that is no whitespace.
Trimmed(p) ==
    LET ink == {i \in 1..Len(p) : ~IsSpace(p[i])}
    IN  IF ink = {} THEN <<>>
        ELSE SubSeq(p, CHOOSE i \in ink : \A j \in ink : i <= j,
                       CHOOSE i \in ink : \A j \in ink : j <= i)

\* The delimited pieces, trimmed, the empty ones dropped, in their order.
Wanted(text, sep) ==
    LET pieces == Pieces(text, sep)
    IN  SelectSeq([j \in DOMAIN pieces |-> Trimmed(pieces[j])],
                  LAMBDA k : k # <<>>)

\* C13: comma-separated keyword parsing.  After the keyword dialog returned
\* a text, the keyword list is the sequence of the comma-delimited pieces of
\* that text, each trimmed of surrounding whitespace, the empty ones
\* dropped, order and duplicates kept; the empty text gives the empty list
\* and "f, ,g " gives [f, g].
C13_CommaParsing ==
    entered.by = "edit" =>
       /\ keywords = Wanted(entered.text, ",")
       /\ entered.text = <<>> => keywords = <<>>
       /\ entered.text = <<"f", ",", " ", ",", "g", " ">> => keywords = <<wf, wg>>

\* The dialog returned "f, ,g " and the keyword list is [f, g].
C13_Witness ==
    /\ entered = [by |-> "edit", text |-> <<"f", ",", " ", ",", "g", " ">>]
    /\ keywords = <<wf, wg>>

\* C14: keyword-file parsing.  After a keyword file was loaded, no entry of
\* the keyword list is empty or whitespace only, and the list is the
\* sequence of the trimmed texts of the non-blank lines of the file, in the
\* order of those lines.
C14_FileParsing ==
    entered.by = "file" =>
       /\ \A k \in 1..Len(keywords) :
             \E i \in 1..Len(keywords[k]) : ~IsSpace(keywords[k][i])
       /\ keywords = Wanted(entered.text, "\n")

\* A file of three lines, the second one blank, gave two keywords.
C14_Witness ==
    /\ entered = [by |-> "file", text |-> <<"F", "\n", " ", "\n", "f">>]
    /\ keywords = <<wF, wf>>

\* How many log lines about file i of worker w were ever put: those already
\* handled by the foreground and those still in the queue.
LinesOf(w, i) ==
    Cardinality({j \in 1..Len(shown[w]) : shown[w][j] = 2 * i - 1})
    + Cardinality({k \in 1..Len(log_q) :
                      log_q[k].tag = "LOG" /\ log_q[k].by = <<w, i>>})

\* The call of highlight_document on file i of worker w has returned.
CallReturned(w, i) ==
    \/ threads[w].idx > i
    \/ threads[w].idx = i /\ threads[w].pc = "progress"

\* C15: exactly one terminal log line per invocation.  Every call of
\* highlight_document that has returned has put one log line, a success line
\* or a failure line, whichever step failed; a call that has not returned, or
\* has not begun, has put none.
C15_OneLine ==
    \A w \in Workers : \A i \in 1..N(threads[w]) :
       LinesOf(w, i) = IF CallReturned(w, i) THEN 1 ELSE 0

\* The second call of a batch failed after it had begun to write, and each
\* of the two calls has returned with its one line.
C15_Witness ==
    \E w \in Workers :
       /\ threads[w].pc = "progress"
       /\ threads[w].idx = 2
       /\ ~threads[w].last_ok
       /\ threads[w].call.wrote
       /\ LinesOf(w, 1) = 1
       /\ LinesOf(w, 2) = 1

\* The regions the search returns over a whole document: one for every page,
\* every place in the keyword list and every region of that keyword on that
\* page, so that a keyword listed twice counts twice.
Regions(pages, kws) ==
    UNION {{<<p, k, r>> : r \in SearchFor(pages[p], kws[k])} :
              <<p, k>> \in (DOMAIN pages) \X (DOMAIN kws)}

\* The step of worker w that opens, searches and annotates its document
\* without a failure.
Scanned(w) ==
    /\ w \in Workers
    /\ threads[w].pc = "call"
    /\ threads'[w].pc = "mkdir"

\* The step of worker w that puts the success line of its call.
Reported(w) ==
    /\ w \in Workers
    /\ threads[w].pc \in InCall
    /\ threads'[w].pc = "progress"
    /\ threads'[w].last_ok

\* C16: hit count.  A call that scans its document counts as many hits as
\* the search returned regions over every page and every entry of the
\* keyword list it was given, and adds that many highlight annotations to the
\* document; the success line carries that count.
C16_HitCount ==
    [][\A w \in 1..MaxStarts :
          /\ Scanned(w) =>
                LET opened == files[Pdf(threads[w])]
                    c == threads'[w].call
                IN  /\ c.total_hits = Cardinality(Regions(opened.pages, c.kw))
                    /\ c.doc.annots = opened.annots + c.total_hits
                    /\ c.doc.pages = opened.pages
          /\ Reported(w) =>
                LET line == log_q'[Len(log_q')]
                IN  /\ line.ok /\ line.by = <<w, threads[w].idx>>
                    /\ line.n = threads[w].call.total_hits
                    /\ line.n = Cardinality(Regions(threads[w].call.doc.pages,
                                                    threads[w].call.kw))]_vars

\* A success line of four hits in the queue: the document of two pages was
\* searched for a list of two keywords that match the same words.
C16_Witness ==
    \E i \in 1..Len(log_q) :
       /\ log_q[i].tag = "LOG" /\ log_q[i].ok /\ log_q[i].n = 4
       /\ keywords = <<wF, wf>>
       /\ \E w \in Workers : threads[w].at_start.kw = <<wF, wf>>

\* The tickets of the events waiting in the queue.
Pending == {log_q[i].ticket : i \in 1..Len(log_q)}

\* Every event put so far is either waiting in the queue or has been handled,
\* and none has been handled twice.
C17_ExactlyOnce ==
    /\ Range(seen) \cup Pending = 1..nput
    /\ Range(seen) \cap Pending = {}
    /\ Cardinality(Range(seen)) = Len(seen)

\* C17: every enqueued event is eventually displayed.  No event is lost or
\* handled twice, a tick of the drain handles every event waiting and leaves
\* the queue empty, and, the timer being set again after every tick, again
\* and again every event put so far has been handled, whether the workers
\* go on or not.
C17_EventuallyDisplayed ==
    /\ []C17_ExactlyOnce
    /\ [][Drain => log_q' = <<>> /\ Len(seen') = Len(seen) + Len(log_q)]_vars
    /\ []<>(Len(seen) = nput)

\* The five events of a batch of two files have all been handled and the
\* summary shows the batch finished.
C17_Witness ==
    /\ nput = 5
    /\ Len(seen) = 5
    /\ log_q = <<>>
    /\ summary_var = Finished(2)

\* C18: parent directories before write.  A call that has come to its save,
\* or past it, finds every directory above its destination file in place,
\* and a step that writes the destination file is taken only then.
C18_ParentsExist ==
    /\ [](\A w \in Workers :
             threads[w].pc \in {"save", "close"} =>
                Chain(Parent(threads[w].call.dest_path)) \subseteq dirs)
    /\ [][\A w \in 1..MaxStarts :
             (w \in Workers /\ threads[w].pc = "save" /\ files' # files) =>
                Chain(Parent(threads[w].call.dest_path)) \subseteq dirs']_vars

\* A document was saved below a directory that its call had to create.
C18_Witness ==
    \E w \in Workers :
       /\ threads[w].pc = "close"
       /\ threads[w].call.dest_path = <<"c", "b", "x.pdf">>
       /\ threads[w].call.dest_path \in DOMAIN files
       /\ <<"c", "b">> \in dirs
       /\ <<"c", "b">> \notin InitDirs

\* C19: one-directional communication.  No step of a worker thread changes
\* the progress indicator, the log display or the summary line: a worker
\* step changes only the thread itself, the filesystem and the queue, to
\* which it only adds at the end; the display changes only in a step of the
\* start action or of the timer drain.
C19_OneDirection ==
    [][/\ (\E w \in Workers : WorkerStep(w)) =>
             /\ UNCHANGED <<progress, log_txt, summary_var>>
             /\ UNCHANGED <<src_folder, dest_folder, keywords, kw_count_var>>
             /\ Len(log_q') >= Len(log_q)
             /\ SubSeq(log_q', 1, Len(log_q)) = log_q
       /\ (<<progress, log_txt, summary_var>>' # <<progress, log_txt, summary_var>>)
             => (Start \/ Drain)]_vars

\* A worker has finished its first file and put events while the display
\* still shows nothing of the batch.
C19_Witness ==
    \E w \in Workers :
       /\ threads[w].idx = 2
       /\ Len(log_q) >= 2
       /\ shown[w] = <<>>
       /\ progress.value = 0
       /\ log_txt = <<>>
       /\ summary_var = NoSummary

\* C20: summary consistency.  Whenever the summary line shows a finished
\* count, the progress value equals the progress maximum and that count.
C20_SummaryConsistent ==
    summary_var.text = "Finished" =>
       /\ progress.value = progress.maximum
       /\ progress.maximum = summary_var.n

====
